---- MODULE Spec2Model ----
(***************************************************************************)
(* LogSentry: the access-log and error-log tokenizers, the aggregation and *)
(* export pipeline (script/log_parse.py) and the retrieval/decompression   *)
(* collector (script/log_download.py).                                     *)
(*                                                                         *)
(* Text is a sequence of symbols.  A symbol is either one delimiter        *)
(* character of the grammar at hand (space, double quote, newline, comma,  *)
(* colon, '#', '[' , ']') or a word: a maximal run of characters that are  *)
(* no delimiter of that grammar.  Two words are never adjacent, so the     *)
(* Python string operations (split, join, strip, slicing, indexing) act on *)
(* a symbol sequence exactly as they act on the string it spells.          *)
(***************************************************************************)
EXTENDS Integers, Sequences, FiniteSets, TLC

VARIABLES
    pc,                  \* position of the running function / its outcome
    exc,                 \* the exception propagating out of it ("" when none)
    \* ---- one call of parse_access_log_file / parse_error_log
    log_file,            \* the file at log_file_path: [readable, lines]
    line_no,             \* lines of the file consumed by the `for line in f` loop
    acc,                 \* parse_access_log_file's column lists and `errors`
    err,                 \* parse_error_log's column lists
    df_logs,             \* the DataFrame parse_access_log_file returns
    df_error_logs,       \* the DataFrame parse_error_log returns
    \* ---- parse_all_files
    access_log_files,    \* glob(access dir): the files in discovery order
    error_log_files,     \* glob(error dir): the files in discovery order
    file_no,             \* entries of the current `for` loop already handled
    all_access_logs_df,  \* combined access table
    all_error_logs_df,   \* combined error table
    csv_access,          \* the file at output_csv_access_path
    csv_error,           \* the file at output_csv_error_path
    exported,            \* exports written by the current run
    runs,                \* calls of parse_all_files so far
    \* ---- log_download / decompress_files
    remote,              \* the remote directory: sequence of [name, data]
    fs,                  \* local storage: path -> content (Absent when no file)
    files_downloaded,    \* log_download's counter (Unbound before line 67)
    sftp_open,           \* the SFTP session is open
    client_open,         \* the SSH client is open
    last_call            \* argument and pre-state of the last decompress_files call

parseVars == <<log_file, line_no, acc, err, df_logs, df_error_logs>>
pipeVars  == <<access_log_files, error_log_files, file_no, all_access_logs_df,
               all_error_logs_df, csv_access, csv_error, exported, runs>>
collVars  == <<remote, fs, files_downloaded, sftp_open, client_open, last_call>>
vars      == <<pc, exc, parseVars, pipeVars, collVars>>

(***************************************************************************)
(* Bounds of the model.                                                    *)
(***************************************************************************)
MaxLines == 2       \* lines of a file parsed on its own
MaxFiles == 2       \* files one glob discovers
MaxRuns == 2        \* consecutive runs of parse_all_files
MaxRemote == 2      \* entries of the remote directory listing

(***************************************************************************)
(* Symbols and Python values.                                              *)
(***************************************************************************)
SP == " "
QUOTE == "\""
NL == "\n"
COMMA == ","
COLON == ":"
HASH == "#"
LBRACKET == "["
RBRACKET == "]"

\* Python's None in a column; "<None>" is no symbol of any line.
None == <<"<None>">>
\* pandas' NaT: what to_datetime(errors='coerce') gives for an unparseable value.
NaT == <<"<NaT>">>

SeqsUpTo(S, n) == UNION {[1..k -> S] : k \in 0..n}

(***************************************************************************)
(* str.split(sep), str.split(sep, 1), sep.join(list), str.strip(chars).    *)
(***************************************************************************)
RECURSIVE Find(_, _, _)
\* index of the first occurrence of sep in s at or after i; 0 when there is none
Find(s, sep, i) ==
    IF i + Len(sep) - 1 > Len(s) THEN 0
    ELSE IF SubSeq(s, i, i + Len(sep) - 1) = sep THEN i
    ELSE Find(s, sep, i + 1)

RECURSIVE Split(_, _)
Split(s, sep) ==
    LET j == Find(s, sep, 1)
    IN  IF j = 0 THEN <<s>>
        ELSE <<SubSeq(s, 1, j - 1)>> \o Split(SubSeq(s, j + Len(sep), Len(s)), sep)

SplitOnce(s, sep) ==
    LET j == Find(s, sep, 1)
    IN  IF j = 0 THEN <<s>>
        ELSE <<SubSeq(s, 1, j - 1), SubSeq(s, j + Len(sep), Len(s))>>

RECURSIVE Join(_, _)
Join(sep, list) ==
    IF Len(list) = 0 THEN << >>
    ELSE IF Len(list) = 1 THEN list[1]
    ELSE list[1] \o sep \o Join(sep, Tail(list))

RECURSIVE LStrip(_, _)
LStrip(s, chars) ==
    IF Len(s) > 0 /\ s[1] \in chars THEN LStrip(Tail(s), chars) ELSE s

RECURSIVE RStrip(_, _)
RStrip(s, chars) ==
    IF Len(s) > 0 /\ s[Len(s)] \in chars THEN RStrip(SubSeq(s, 1, Len(s) - 1), chars)
    ELSE s

Strip(s, chars) == RStrip(LStrip(s, chars), chars)

\* list[k:] for a 0-based k
SliceFrom(list, k) == SubSeq(list, k + 1, Len(list))

Whitespace == {SP, NL}

(***************************************************************************)
(* parse_access_log_file: the body of the `for line in f` loop.            *)
(***************************************************************************)
requests ==
    {<<"GET">>, <<"POST">>, <<"PUT">>, <<"DELETE">>, <<"PATCH">>, <<"HEAD">>,
     <<"OPTIONS">>, <<"CONNECT">>, <<"TRACE">>}

\* the state of the function's locals before the first line
AccessLocals ==
    [ip |-> << >>, datetime |-> << >>, request |-> << >>, url |-> << >>,
     status_code |-> << >>, user_agent |-> << >>, errors |-> 0, exc |-> ""]

\* ' '.join(log_part[1:-1])
MethodUrlKeepsProtocol(log_part) == Join(<<SP>>, SubSeq(log_part, 2, Len(log_part)))
MethodUrl(log_part) == Join(<<SP>>, SubSeq(log_part, 2, Len(log_part) - 1))

\* ' '.join(log_part)
RawUrlDropFirst(log_part) == Join(<<SP>>, Tail(log_part))
RawUrl(log_part) == Join(<<SP>>, log_part)

\* lines 52-85: the request and url columns and the malformed counter
RequestUrl(loc, parts) ==
    IF Len(parts) > 1
    THEN LET log_part == Split(parts[2], <<SP>>)
         IN  IF Len(log_part) > 1
             THEN IF log_part[1] \in requests
                  THEN [loc EXCEPT !.request = Append(@, log_part[1]),
                                   !.url = Append(@, MethodUrl(log_part))]
                  ELSE [loc EXCEPT !.request = Append(@, None),
                                   !.errors = @ + 1,
                                   !.url = Append(@, RawUrl(log_part))]
             ELSE [loc EXCEPT !.request = Append(@, None),
                              !.url = Append(@, None),
                              !.errors = @ + 2]
    ELSE [loc EXCEPT !.request = Append(@, None),
                     !.url = Append(@, None),
                     !.errors = @ + 2]

\* lines 87-91: user_agent.append(parts[5:]); ip.append(parts[0].split(' ')[0])
AgentIp(loc, parts) ==
    [loc EXCEPT !.user_agent = Append(@, SliceFrom(parts, 5)),
                !.ip = Append(@, Split(parts[1], <<SP>>)[1])]

\* line 94: datetime.append(parts[0].split(' ')[3])
DateToken(loc, parts) ==
    LET head == Split(parts[1], <<SP>>)
    IN  IF Len(head) >= 4
        THEN [loc EXCEPT !.datetime = Append(@, head[4])]
        ELSE [loc EXCEPT !.exc = "IndexError"]

\* line 97: status_code.append(parts[2].split(' ')[1])
StatusToken(loc, parts) ==
    IF loc.exc # "" THEN loc
    ELSE IF Len(parts) >= 3 /\ Len(Split(parts[3], <<SP>>)) >= 2
    THEN [loc EXCEPT !.status_code = Append(@, Split(parts[3], <<SP>>)[2])]
    ELSE [loc EXCEPT !.exc = "IndexError"]

\* one iteration of the loop of lines 50-97
AccessLine(loc, line) ==
    LET parts == Split(line, <<QUOTE>>)
    IN  StatusToken(DateToken(AgentIp(RequestUrl(loc, parts), parts), parts), parts)

\* pd.to_datetime(column, format=..., errors='coerce') on one value
ToDatetime(token, parseable) ==
    IF token \in parseable THEN <<"Timestamp">> \o token ELSE NaT

\* the values the format '[%d/%b/%Y:%H:%M:%S' parses, among those of the model
AccessStamps == {<<"[29/Sep/2024:00:24:27">>}

\* lines 100-110: the DataFrame, one row per entry of the column lists
AccessFrame(loc) ==
    [i \in 1..Len(loc.ip) |->
        [ip |-> loc.ip[i],
         datetime |-> ToDatetime(loc.datetime[i], AccessStamps),
         request |-> loc.request[i],
         url |-> loc.url[i],
         status_code |-> loc.status_code[i],
         user_agent |-> loc.user_agent[i]]]

RECURSIVE AccessLoop(_, _)
\* the whole `for line in f` loop: stops at the first line that raises
AccessLoop(loc, lines) ==
    IF loc.exc # "" \/ Len(lines) = 0 THEN loc
    ELSE AccessLoop(AccessLine(loc, Head(lines)), Tail(lines))

\* parse_access_log_file as one call: [exc, df]
ParseAccessLogFile(file) ==
    IF ~file.readable THEN [exc |-> "OSError", df |-> << >>]
    ELSE LET loc == AccessLoop(AccessLocals, file.lines)
         IN  IF loc.exc # "" THEN [exc |-> loc.exc, df |-> << >>]
             ELSE [exc |-> "", df |-> AccessFrame(loc)]

(***************************************************************************)
(* parse_error_log: the body of the `for line in f` loop.                  *)
(***************************************************************************)
ErrorLocals ==
    [date_time |-> << >>, error_level |-> << >>, process_id |-> << >>,
     message |-> << >>, client_ip |-> << >>, server |-> << >>,
     request |-> << >>, host |-> << >>, exc |-> ""]

\* line 154: date_time.append(parts[0].split(' ')[0] + ' ' + parts[0].split(' ')[1])
DateTime(loc, parts) ==
    LET head == Split(parts[1], <<SP>>)
    IN  IF Len(head) >= 2
        THEN [loc EXCEPT !.date_time = Append(@, head[1] \o <<SP>> \o head[2])]
        ELSE [loc EXCEPT !.exc = "IndexError"]

\* line 155: error_level.append(parts[0].split(' ')[2].strip('[]'))
ErrorLevel(loc, parts) ==
    LET head == Split(parts[1], <<SP>>)
    IN  IF loc.exc # "" THEN loc
        ELSE IF Len(head) >= 3
        THEN [loc EXCEPT !.error_level =
                            Append(@, Strip(head[3], {LBRACKET, RBRACKET}))]
        ELSE [loc EXCEPT !.exc = "IndexError"]

\* line 156: process_id.append(parts[0].split(' ')[3].split('#')[1])
ProcessId(loc, parts) ==
    LET head == Split(parts[1], <<SP>>)
    IN  IF loc.exc # "" THEN loc
        ELSE IF Len(head) >= 4 /\ Len(Split(head[4], <<HASH>>)) >= 2
        THEN [loc EXCEPT !.process_id = Append(@, Split(head[4], <<HASH>>)[2])]
        ELSE [loc EXCEPT !.exc = "IndexError"]

\* lines 159-160: message.append(parts[1].split(':', 1)[1].strip())
Message(loc, parts) ==
    IF loc.exc # "" THEN loc
    ELSE IF Len(parts) >= 2 /\ Len(SplitOnce(parts[2], <<COLON>>)) >= 2
    THEN [loc EXCEPT !.message =
                        Append(@, Strip(SplitOnce(parts[2], <<COLON>>)[2], Whitespace))]
    ELSE [loc EXCEPT !.exc = "IndexError"]

\* lines 163-172: column.append(parts[k].split(': ')[1]) for a 0-based k
KeyValue(loc, parts, k, column) ==
    IF loc.exc # "" THEN loc
    ELSE IF Len(parts) >= k + 1 /\ Len(Split(parts[k + 1], <<COLON, SP>>)) >= 2
    THEN [loc EXCEPT ![column] = Append(@, Split(parts[k + 1], <<COLON, SP>>)[2])]
    ELSE [loc EXCEPT !.exc = "IndexError"]

\* one iteration of the loop of lines 149-172
ErrorLine(loc, line) ==
    LET parts == Split(line, <<COMMA, SP>>)
        l1 == ProcessId(ErrorLevel(DateTime(loc, parts), parts), parts)
        l2 == Message(l1, parts)
        l3 == KeyValue(l2, parts, 2, "client_ip")
        l4 == KeyValue(l3, parts, 3, "server")
        l5 == KeyValue(l4, parts, 4, "request")
    IN  KeyValue(l5, parts, 5, "host")

\* the values the format '%Y/%m/%d %H:%M:%S' parses, among those of the model
ErrorStamps == {<<"2024/09/29", SP, "10", COLON, "15", COLON, "03">>}

\* lines 175-187: the DataFrame, one row per entry of the column lists
ErrorFrame(loc) ==
    [i \in 1..Len(loc.date_time) |->
        [date_time |-> ToDatetime(loc.date_time[i], ErrorStamps),
         error_level |-> loc.error_level[i],
         process_id |-> loc.process_id[i],
         message |-> loc.message[i],
         client_ip |-> loc.client_ip[i],
         server |-> loc.server[i],
         request |-> loc.request[i],
         host |-> loc.host[i]]]

RECURSIVE ErrorLoop(_, _)
ErrorLoop(loc, lines) ==
    IF loc.exc # "" \/ Len(lines) = 0 THEN loc
    ELSE ErrorLoop(ErrorLine(loc, Head(lines)), Tail(lines))

\* parse_error_log as one call: [exc, df]
ParseErrorLog(file) ==
    IF ~file.readable THEN [exc |-> "OSError", df |-> << >>]
    ELSE LET loc == ErrorLoop(ErrorLocals, file.lines)
         IN  IF loc.exc # "" THEN [exc |-> loc.exc, df |-> << >>]
             ELSE [exc |-> "", df |-> ErrorFrame(loc)]

(***************************************************************************)
(* Input lines.  An access line of the expected shape is spelled from its  *)
(* fields; the malformed lines are the deviations the tokenizer meets.     *)
(***************************************************************************)
Date == "[29/Sep/2024:00:24:27"
Tz == "+0200]"
Proto == "HTTP/1.1"
Size == "162"
Referer == "-"
Agent == "Go-http-client/1.1"

AccessArgs ==
    [ip : {"185.224.128.83"},
     method : {"GET", "POST", "PUT", "DELETE", "PATCH", "HEAD", "OPTIONS", "CONNECT",
               "TRACE"},
     url : {<< >>, <<"/a">>, <<"/a", "b">>}, status : {"404"}]

\* <ip> - - [<date> <tz>]<space>
AccessHead(ip, date) == <<ip, SP, "-", SP, "-", SP, date, SP, Tz, SP>>

\* <space><status> <size> "<referer>" "<agent>"<newline>
AccessTail(status) ==
    <<SP, status, SP, Size, SP, QUOTE, Referer, QUOTE, SP, QUOTE, Agent, QUOTE, NL>>

\* <METHOD> <url tokens...> <protocol>
RequestSegment(method, urlTokens) ==
    Join(<<SP>>, <<<<method>>>> \o [i \in 1..Len(urlTokens) |-> <<urlTokens[i]>>]
                  \o <<<<Proto>>>>)

WellFormedLine(a) ==
    AccessHead(a.ip, Date) \o <<QUOTE>> \o RequestSegment(a.method, a.url)
        \o <<QUOTE>> \o AccessTail(a.status)

Ip == "185.224.128.83"
\* first quoted token outside the method set, the rest as expected
NonMethodLine ==
    AccessHead(Ip, Date) \o <<QUOTE, "FOO", SP, "/a", SP, Proto, QUOTE>> \o AccessTail("400")
\* the same request segment, and the line ends inside it
NonMethodCutLine == AccessHead(Ip, Date) \o <<QUOTE, "FOO", SP, "bar", NL>>
\* a one-token request segment: "-"
OneTokenLine == AccessHead(Ip, Date) \o <<QUOTE, "-", QUOTE>> \o AccessTail("400")
\* a one-token request segment that is a method: "GET"
MethodOnlyLine == AccessHead(Ip, Date) \o <<QUOTE, "GET", QUOTE>> \o AccessTail("400")
\* an empty request segment: ""
EmptySegmentLine == AccessHead(Ip, Date) \o <<QUOTE, QUOTE>> \o AccessTail("400")
\* no double quote at all
NoQuoteLine == AccessHead(Ip, Date) \o <<"garbage", NL>>
EmptyLine == <<NL>>
\* fewer than four whitespace tokens before the first quote
ShortHeadLine ==
    <<Ip, SP, QUOTE>> \o RequestSegment("GET", <<"/a">>) \o <<QUOTE>> \o AccessTail("200")
\* fewer than three quote-delimited segments
TwoSegmentLine ==
    AccessHead(Ip, Date) \o <<QUOTE>> \o RequestSegment("GET", <<"/a">>) \o <<NL>>
\* a date the format does not parse
BadDateLine ==
    AccessHead(Ip, "[nodate") \o <<QUOTE>> \o RequestSegment("GET", <<"/a">>)
        \o <<QUOTE>> \o AccessTail("200")

MalformedAccessLines ==
    {NonMethodLine, NonMethodCutLine, OneTokenLine, MethodOnlyLine, EmptySegmentLine,
     NoQuoteLine, EmptyLine, ShortHeadLine, TwoSegmentLine, BadDateLine}

AccessLines == {WellFormedLine(a) : a \in AccessArgs} \cup MalformedAccessLines

\* field 0 of an error line: <date> <time> [<level>] <pid>#<tid>: <text>
ErrorHead(level) ==
    <<"2024/09/29", SP, "10", COLON, "15", COLON, "03", SP, LBRACKET, level, RBRACKET,
      SP, "1234", HASH, "5678", COLON, SP, "*1">>

KV(key, value) == <<key, COLON, SP, value>>

ErrorFields(level) ==
    <<ErrorHead(level), KV("message", "denied"), KV("client", "185.224.128.83"),
      KV("server", "localhost"), KV("request", "GET"), KV("host", "example.com")>>

ErrorText(fields) == Join(<<COMMA, SP>>, fields) \o <<NL>>

WellFormedErrorLine(level) == ErrorText(ErrorFields(level))

\* fewer than six ", "-separated fields
FiveFieldLine == ErrorText(SubSeq(ErrorFields("error"), 1, 5))
\* fewer than four whitespace tokens in field 0
ShortErrorHeadLine ==
    ErrorText([ErrorFields("error") EXCEPT ![1] = SubSeq(ErrorHead("error"), 1, 11)])
\* no '#' in token 3 of field 0
NoHashLine ==
    ErrorText([ErrorFields("error") EXCEPT
                  ![1] = SubSeq(ErrorHead("error"), 1, 13) \o <<COLON, SP, "*1">>])
\* field 1 without a colon
NoColonMessageLine ==
    ErrorText([ErrorFields("error") EXCEPT ![2] = <<"message", SP, "denied">>])
\* field 2 without its ": " separator
NoColonFieldLine ==
    ErrorText([ErrorFields("error") EXCEPT ![3] = <<"client", SP, "185.224.128.83">>])

MalformedErrorLines ==
    {FiveFieldLine, ShortErrorHeadLine, NoHashLine, NoColonMessageLine,
     NoColonFieldLine, EmptyLine}

ErrorLines == {WellFormedErrorLine(l) : l \in {"error", "warn"}} \cup MalformedErrorLines

File(lines) == [readable |-> TRUE, lines |-> lines]
\* a path that open() refuses: missing, or not readable
Unreadable == [readable |-> FALSE, lines |-> << >>]

(***************************************************************************)
(* Values of the variables a specification does not use.                   *)
(***************************************************************************)
Absent == <<"<absent>">>
Unbound == -1
\* no file at an export path yet
NoCsv == [exists |-> FALSE, rows |-> << >>]
\* decompress_files was not called yet
NoCall == [path |-> << >>, archive |-> Absent]

ParseIdle ==
    /\ log_file = Unreadable /\ line_no = 0
    /\ acc = AccessLocals /\ err = ErrorLocals
    /\ df_logs = << >> /\ df_error_logs = << >>

PipeIdle ==
    /\ access_log_files = << >> /\ error_log_files = << >> /\ file_no = 0
    /\ all_access_logs_df = << >> /\ all_error_logs_df = << >>
    /\ csv_access = NoCsv /\ csv_error = NoCsv
    /\ exported = {} /\ runs = 0

CollIdle ==
    /\ remote = << >> /\ fs = << >> /\ files_downloaded = Unbound
    /\ sftp_open = FALSE /\ client_open = FALSE
    /\ last_call = NoCall

(***************************************************************************)
(* SpecAccess: one call of parse_access_log_file, line by line.            *)
(***************************************************************************)
AccessInputs == {File(l) : l \in SeqsUpTo(AccessLines, MaxLines)} \cup {Unreadable}

InitAccess ==
    /\ pc = "open" /\ exc = ""
    /\ log_file \in AccessInputs /\ line_no = 0
    /\ acc = AccessLocals /\ err = ErrorLocals
    /\ df_logs = << >> /\ df_error_logs = << >>
    /\ PipeIdle /\ CollIdle

\* line 49: with open(log_file_path, 'r') as f
OpenAccessLog ==
    /\ pc = "open"
    /\ IF log_file.readable
       THEN pc' = "reading" /\ exc' = ""
       ELSE pc' = "raised" /\ exc' = "OSError"
    /\ UNCHANGED <<parseVars, pipeVars, collVars>>

\* lines 50-97: one line of the file
ReadAccessLine ==
    /\ pc = "reading"
    /\ line_no < Len(log_file.lines)
    /\ acc' = AccessLine(acc, log_file.lines[line_no + 1])
    /\ line_no' = line_no + 1
    /\ exc' = acc'.exc
    /\ pc' = IF acc'.exc # "" THEN "raised" ELSE "reading"
    /\ UNCHANGED <<log_file, err, df_logs, df_error_logs, pipeVars, collVars>>

\* lines 100-113: the loop is over; build and return the DataFrame
ReturnAccessFrame ==
    /\ pc = "reading"
    /\ line_no = Len(log_file.lines)
    /\ df_logs' = AccessFrame(acc)
    /\ pc' = "returned"
    /\ UNCHANGED <<exc, log_file, line_no, acc, err, df_error_logs, pipeVars, collVars>>

NextAccess == OpenAccessLog \/ ReadAccessLine \/ ReturnAccessFrame

SpecAccess == InitAccess /\ [][NextAccess]_vars

(***************************************************************************)
(* SpecError: one call of parse_error_log, line by line.                   *)
(***************************************************************************)
ErrorInputs == {File(l) : l \in SeqsUpTo(ErrorLines, MaxLines)} \cup {Unreadable}

InitError ==
    /\ pc = "open" /\ exc = ""
    /\ log_file \in ErrorInputs /\ line_no = 0
    /\ acc = AccessLocals /\ err = ErrorLocals
    /\ df_logs = << >> /\ df_error_logs = << >>
    /\ PipeIdle /\ CollIdle

\* line 148: with open(log_file_path, 'r') as f
OpenErrorLog ==
    /\ pc = "open"
    /\ IF log_file.readable
       THEN pc' = "reading" /\ exc' = ""
       ELSE pc' = "raised" /\ exc' = "OSError"
    /\ UNCHANGED <<parseVars, pipeVars, collVars>>

\* lines 149-172: one line of the file
ReadErrorLine ==
    /\ pc = "reading"
    /\ line_no < Len(log_file.lines)
    /\ err' = ErrorLine(err, log_file.lines[line_no + 1])
    /\ line_no' = line_no + 1
    /\ exc' = err'.exc
    /\ pc' = IF err'.exc # "" THEN "raised" ELSE "reading"
    /\ UNCHANGED <<log_file, acc, df_logs, df_error_logs, pipeVars, collVars>>

\* lines 175-190: the loop is over; build and return the DataFrame
ReturnErrorFrame ==
    /\ pc = "reading"
    /\ line_no = Len(log_file.lines)
    /\ df_error_logs' = ErrorFrame(err)
    /\ pc' = "returned"
    /\ UNCHANGED <<exc, log_file, line_no, acc, err, df_logs, pipeVars, collVars>>

NextError == OpenErrorLog \/ ReadErrorLine \/ ReturnErrorFrame

SpecError == InitError /\ [][NextError]_vars

(***************************************************************************)
(* Properties of parse_access_log_file (SpecAccess) and parse_error_log    *)
(* (SpecError).  The shape of a line is read off the line itself, by       *)
(* position, not through the tokenizer.                                    *)
(***************************************************************************)
HasQuote(line) == \E k \in 1..Len(line) : line[k] = QUOTE

\* the text between the first double quote and the next one (or the line's end)
FirstQuotedSegment(line) ==
    LET q1 == CHOOSE k \in 1..Len(line) :
                  line[k] = QUOTE /\ \A j \in 1..(k - 1) : line[j] # QUOTE
        after == {k \in (q1 + 1)..Len(line) : line[k] = QUOTE}
        q2 == IF after = {} THEN Len(line) + 1
              ELSE CHOOSE k \in after : \A j \in after : k <= j
    IN  SubSeq(line, q1 + 1, q2 - 1)

\* the text before the first space
FirstToken(text) ==
    LET spaces == {k \in 1..Len(text) : text[k] = SP}
    IN  IF spaces = {} THEN text
        ELSE SubSeq(text, 1, (CHOOSE k \in spaces : \A j \in spaces : k <= j) - 1)

TokenCount(text) == Cardinality({k \in 1..Len(text) : text[k] = SP}) + 1

\* line k of the file being parsed
LineAt(k) == log_file.lines[k]
\* the step consumes line k
Consumes(k) == pc = "reading" /\ line_no + 1 = k /\ k <= Len(log_file.lines)
\* the step returns the DataFrame
Returns == pc = "reading" /\ pc' = "returned"

\* C1: for every readable access-log file parse_access_log_file does not raise
\* and returns exactly one record per input line.
C1_OneRecordPerLine ==
    log_file.readable =>
        /\ pc # "raised"
        /\ pc = "returned" => Len(df_logs) = Len(log_file.lines)

\* C3: for every readable error-log file parse_error_log does not raise.
C3_ErrorLogNeverRaises == log_file.readable => pc # "raised"

\* C5: every consumed line without a double quote has its record (an entry in
\* every column), with request and url null, and two malformed units counted.
C5_NoQuoteRecord ==
    /\ \A k \in 1..line_no :
          ~HasQuote(LineAt(k)) =>
              /\ exc = ""
              /\ Len(acc.status_code) >= k
              /\ acc.request[k] = None /\ acc.url[k] = None
    /\ acc.errors >= 2 * Cardinality({k \in 1..line_no : ~HasQuote(LineAt(k))})

NonMethodToken(line) ==
    HasQuote(line) /\ FirstToken(FirstQuotedSegment(line)) \notin requests

\* C6 as stated: for every line whose first quoted token is not in the method
\* set, request is null, url is the raw first quoted segment and the malformed
\* counter increases by exactly 1.
C6_AnyNonMethodToken ==
    [][\A k \in 1..Len(log_file.lines) :
          Consumes(k) /\ NonMethodToken(LineAt(k)) =>
              /\ acc'.request[k] = None
              /\ acc'.url[k] = FirstQuotedSegment(LineAt(k))
              /\ acc'.errors = acc.errors + 1]_vars

NonMethodSegment(line) ==
    NonMethodToken(line) /\ TokenCount(FirstQuotedSegment(line)) >= 2

\* C6 amended: for every line whose first quoted segment has at least two
\* space-separated tokens, the first of them not in the method set, the request
\* entry is null, the url entry is the raw first quoted segment and the
\* malformed counter increases by exactly 1; the returned row carries both.
C6_NonMethodSegment ==
    [][/\ \A k \in 1..Len(log_file.lines) :
            Consumes(k) /\ NonMethodSegment(LineAt(k)) =>
                /\ acc'.request[k] = None
                /\ acc'.url[k] = FirstQuotedSegment(LineAt(k))
                /\ acc'.errors = acc.errors + 1
       /\ Returns =>
            \A k \in 1..Len(log_file.lines) :
                NonMethodSegment(LineAt(k)) =>
                    /\ df_logs'[k].request = None
                    /\ df_logs'[k].url = FirstQuotedSegment(LineAt(k))]_vars

C6_Witness ==
    /\ pc = "returned"
    /\ \E k \in 1..Len(df_logs) :
          NonMethodSegment(LineAt(k)) /\ df_logs[k].url = FirstQuotedSegment(LineAt(k))

\* the url tokens of a well-formed line, joined by single spaces
ExpectedUrl(a) == Join(<<SP>>, [i \in 1..Len(a.url) |-> <<a.url[i]>>])

\* C7: for every line of the expected shape with a recognized METHOD, request
\* is METHOD, url is the space-join of the tokens strictly between the first
\* and the last token of the request segment, status_code is <status>, ip is
\* <ip>, and the malformed counter is not increased; the returned row carries
\* the four values.
C7_WellFormedLine ==
    [][\A a \in AccessArgs :
        /\ \A k \in 1..Len(log_file.lines) :
              Consumes(k) /\ LineAt(k) = WellFormedLine(a) =>
                  /\ exc' = ""
                  /\ acc'.request[k] = <<a.method>>
                  /\ acc'.url[k] = ExpectedUrl(a)
                  /\ acc'.status_code[k] = <<a.status>>
                  /\ acc'.ip[k] = <<a.ip>>
                  /\ acc'.errors = acc.errors
        /\ Returns =>
              \A k \in 1..Len(log_file.lines) :
                  LineAt(k) = WellFormedLine(a) =>
                      /\ df_logs'[k].request = <<a.method>>
                      /\ df_logs'[k].url = ExpectedUrl(a)
                      /\ df_logs'[k].status_code = <<a.status>>
                      /\ df_logs'[k].ip = <<a.ip>>]_vars

C7_Witness ==
    /\ pc = "returned"
    /\ \E a \in AccessArgs, k \in 1..Len(df_logs) :
          /\ Len(a.url) = 2
          /\ LineAt(k) = WellFormedLine(a)
          /\ df_logs[k].url = ExpectedUrl(a)

(***************************************************************************)
(* Spec: parse_all_files, file by file, run after run.  A table is its     *)
(* sequence of rows; an exported file is whether it exists, and its rows.  *)
(***************************************************************************)
GetLine ==
    WellFormedLine([ip |-> Ip, method |-> "GET", url |-> <<"/a">>, status |-> "404"])
PostLine ==
    WellFormedLine([ip |-> Ip, method |-> "POST", url |-> <<"/a", "b">>, status |-> "404"])

\* the files a glob of the access directory may discover
AccessCorpus ==
    {File(<<GetLine, PostLine>>), File(<<NonMethodLine>>), File(<<NoQuoteLine>>),
     Unreadable}

\* the files a glob of the error directory may discover
ErrorCorpus ==
    {File(<<WellFormedErrorLine("error"), WellFormedErrorLine("warn")>>),
     File(<<FiveFieldLine>>), Unreadable}

\* pd.concat([all_df, df], ignore_index=True)
ConcatPrepend(all_df, df) == df \o all_df
Concat(all_df, df) == all_df \o df

\* all_df.to_csv(path, index=False): the rows of the file at path afterwards
ToCsvAppend(old, all_df) == [exists |-> TRUE, rows |-> old.rows \o all_df]
ToCsv(old, all_df) == [exists |-> TRUE, rows |-> all_df]

Init ==
    /\ pc = "idle" /\ exc = ""
    /\ ParseIdle /\ PipeIdle /\ CollIdle

\* lines 204-209: a call of parse_all_files; the access directory is globbed
StartRun ==
    /\ pc \in {"idle", "done", "raised"}
    /\ runs < MaxRuns
    /\ runs' = runs + 1
    /\ all_access_logs_df' = << >> /\ all_error_logs_df' = << >>
    /\ access_log_files' \in SeqsUpTo(AccessCorpus, MaxFiles)
    /\ error_log_files' = << >>
    /\ file_no' = 0 /\ exported' = {}
    /\ pc' = "access" /\ exc' = ""
    /\ UNCHANGED <<csv_access, csv_error, parseVars, collVars>>

\* lines 210-213: one file of the access loop
ParseAccessFile ==
    /\ pc = "access"
    /\ file_no < Len(access_log_files)
    /\ LET r == ParseAccessLogFile(access_log_files[file_no + 1])
       IN  IF r.exc # ""
           THEN /\ pc' = "raised" /\ exc' = r.exc
                /\ UNCHANGED <<all_access_logs_df, file_no>>
           ELSE /\ all_access_logs_df' = Concat(all_access_logs_df, r.df)
                /\ file_no' = file_no + 1
                /\ UNCHANGED <<pc, exc>>
    /\ UNCHANGED <<access_log_files, error_log_files, all_error_logs_df, csv_access,
                   csv_error, exported, runs, parseVars, collVars>>

\* lines 216-221: the access export; the error directory is globbed
ExportAccess ==
    /\ pc = "access"
    /\ file_no = Len(access_log_files)
    /\ csv_access' = ToCsv(csv_access, all_access_logs_df)
    /\ exported' = exported \cup {"access"}
    /\ error_log_files' \in SeqsUpTo(ErrorCorpus, MaxFiles)
    /\ file_no' = 0
    /\ pc' = "error"
    /\ UNCHANGED <<exc, access_log_files, all_access_logs_df, all_error_logs_df,
                   csv_error, runs, parseVars, collVars>>

\* lines 222-225: one file of the error loop
ParseErrorFile ==
    /\ pc = "error"
    /\ file_no < Len(error_log_files)
    /\ LET r == ParseErrorLog(error_log_files[file_no + 1])
       IN  IF r.exc # ""
           THEN /\ pc' = "raised" /\ exc' = r.exc
                /\ UNCHANGED <<all_error_logs_df, file_no>>
           ELSE /\ all_error_logs_df' = Concat(all_error_logs_df, r.df)
                /\ file_no' = file_no + 1
                /\ UNCHANGED <<pc, exc>>
    /\ UNCHANGED <<access_log_files, error_log_files, all_access_logs_df, csv_access,
                   csv_error, exported, runs, parseVars, collVars>>

\* lines 228-229: the error export
ExportError ==
    /\ pc = "error"
    /\ file_no = Len(error_log_files)
    /\ csv_error' = ToCsv(csv_error, all_error_logs_df)
    /\ exported' = exported \cup {"error"}
    /\ pc' = "done"
    /\ UNCHANGED <<exc, access_log_files, error_log_files, file_no, all_access_logs_df,
                   all_error_logs_df, csv_access, runs, parseVars, collVars>>

Next == StartRun \/ ParseAccessFile \/ ExportAccess \/ ParseErrorFile \/ ExportError

Spec == Init /\ [][Next]_vars

(***************************************************************************)
(* Properties of parse_all_files (Spec).                                   *)
(***************************************************************************)
\* C2: a file whose parse fails does not abort the batch: no exception leaves
\* parse_all_files, and the run ends with both exports written.
C2_FailureConfined ==
    /\ pc # "raised"
    /\ pc = "done" => exported = {"access", "error"}

RECURSIVE AccessRows(_)
\* the rows of the files, file after file, each in line order
AccessRows(files) ==
    IF Len(files) = 0 THEN << >>
    ELSE ParseAccessLogFile(Head(files)).df \o AccessRows(Tail(files))

RECURSIVE ErrorRows(_)
ErrorRows(files) ==
    IF Len(files) = 0 THEN << >>
    ELSE ParseErrorLog(Head(files)).df \o ErrorRows(Tail(files))

\* C4: the combined table is the rows of F1, then those of F2, ... then those
\* of Fn, for the files parsed so far, none removed and none moved.
C4_AggregationOrder ==
    /\ pc = "access" =>
          all_access_logs_df = AccessRows(SubSeq(access_log_files, 1, file_no))
    /\ "access" \in exported => all_access_logs_df = AccessRows(access_log_files)
    /\ pc = "error" =>
          all_error_logs_df = ErrorRows(SubSeq(error_log_files, 1, file_no))
    /\ "error" \in exported => all_error_logs_df = ErrorRows(error_log_files)

\* two files and more than two rows, the rows of the first file first
C4_Witness ==
    /\ pc = "done"
    /\ Len(access_log_files) = 2 /\ Len(error_log_files) = 2
    /\ access_log_files[1] # access_log_files[2]
    /\ Len(all_access_logs_df) = 3 /\ Len(all_error_logs_df) = 4

\* C8: an export replaces the file: in every run the exported file holds the
\* rows of that run's table and nothing of an earlier run.
C8_ExportOverwrites ==
    /\ "access" \in exported =>
          /\ csv_access.rows = all_access_logs_df
          /\ Len(csv_access.rows) = Len(AccessRows(access_log_files))
    /\ "error" \in exported =>
          /\ csv_error.rows = all_error_logs_df
          /\ Len(csv_error.rows) = Len(ErrorRows(error_log_files))

\* a second run over non-empty batches has exported both files
C8_Witness ==
    /\ runs >= 2 /\ pc = "done"
    /\ Len(csv_access.rows) > 0 /\ Len(csv_error.rows) > 0

(***************************************************************************)
(* SpecCollector: log_download and decompress_files.  A file name and a    *)
(* path are symbol sequences whose words are the name's parts ("access",   *)
(* ".log", ".gz", "/"); a file's content is a sequence of blocks.          *)
(***************************************************************************)
GZ == ".gz"

\* file.endswith('.gz'), file.startswith(prefix)
EndsWithGz(name) == Len(name) > 0 /\ name[Len(name)] = GZ
StartsWith(name, prefix) == Len(name) > 0 /\ name[1] = prefix

NotGz(symbol) == symbol # GZ
\* line 131: local_log_file_path.replace('.gz', ''): every '.gz' goes
ReplaceGz(path) == SelectSeq(path, NotGz)

AccessDir == <<"logs", "/", "access">>
ErrorDir == <<"logs", "/", "error">>

\* os.path.join(directory, file)
PathJoin(dir, name) == dir \o <<"/">> \o name

\* lines 73-74, 79-83: where log_download stores the file, by its prefix
LocalPath(name) ==
    IF StartsWith(name, "access") THEN PathJoin(AccessDir, name)
    ELSE PathJoin(ErrorDir, name)

\* gzip: compressed block <-> plain block
Deflate(b) == CASE b = "b1" -> "z1" [] b = "b2" -> "z2" [] OTHER -> b
Inflate(z) == CASE z = "z1" -> "b1" [] z = "z2" -> "b2" [] OTHER -> z
GzipHeader == "gz-header"
GzipTrailer == "gz-trailer"

Gzip(payload) ==
    <<GzipHeader>> \o [i \in 1..Len(payload) |-> Deflate(payload[i])] \o <<GzipTrailer>>

\* reading a gzip stream to its end: [out, exc].  An empty file reads as empty;
\* a file without the magic header is a BadGzipFile before any output; a stream
\* that ends before its trailer gives its blocks and then EOFError.
Gunzip(data) ==
    IF Len(data) = 0 THEN [out |-> << >>, exc |-> ""]
    ELSE IF data[1] # GzipHeader THEN [out |-> << >>, exc |-> "BadGzipFile"]
    ELSE LET body == Tail(data)
             ends == {k \in 1..Len(body) : body[k] = GzipTrailer}
         IN  IF ends = {}
             THEN [out |-> [i \in 1..Len(body) |-> Inflate(body[i])], exc |-> "EOFError"]
             ELSE LET e == CHOOSE k \in ends : \A j \in ends : k <= j
                  IN  [out |-> [i \in 1..(e - 1) |-> Inflate(body[i])], exc |-> ""]

\* lines 129-149: decompress_files(path) on local storage; every exception is
\* logged and swallowed.  gzip.open raises FileNotFoundError before the output
\* is opened; open(out, 'wb') truncates the output before the first read.
DecompressFiles(fsys, path) ==
    LET out == ReplaceGz(path)
    IN  IF fsys[path] = Absent THEN fsys
        ELSE LET opened == [fsys EXCEPT ![out] = << >>]
                 r == Gunzip(opened[path])
                 written == [opened EXCEPT ![out] = r.out]
             IN  IF r.exc # "" THEN written
                 ELSE [written EXCEPT ![path] = Absent]

Payload == <<"b1", "b2">>

AccessPlain == <<"access", ".log", ".1">>
AccessArchive == <<"access", ".log", ".2", GZ>>
AccessInnerGz == <<"access", GZ, ".1", GZ>>
ErrorPlain == <<"error", ".log">>
ErrorArchive == <<"error", ".log", ".1", GZ>>
OtherFile == <<"other", ".txt">>

\* the remote files: a name and the bytes the server holds under it
RemoteEntries ==
    {[name |-> AccessPlain, data |-> Payload],
     [name |-> AccessArchive, data |-> Gzip(Payload)],
     \* an archive cut short on the server, and a .gz name over plain bytes
     [name |-> AccessArchive, data |-> SubSeq(Gzip(Payload), 1, 2)],
     [name |-> AccessArchive, data |-> Payload],
     [name |-> AccessInnerGz, data |-> Gzip(Payload)],
     [name |-> ErrorPlain, data |-> Payload],
     [name |-> ErrorArchive, data |-> Gzip(Payload)],
     [name |-> OtherFile, data |-> Payload]}

\* a name or path without its last part (for an archive, its .gz suffix)
WithoutSuffix(path) == SubSeq(path, 1, Len(path) - 1)

DistinctNames(list) ==
    \A i, j \in 1..Len(list) : i # j => list[i].name # list[j].name

RemoteDirs ==
    {[exists |-> FALSE, files |-> << >>]} \cup
    {[exists |-> TRUE, files |-> l] :
        l \in {m \in SeqsUpTo(RemoteEntries, MaxRemote) : DistinctNames(m)}}

LocalNames ==
    LET names == {e.name : e \in RemoteEntries}
    IN  {n \in names \cup {ReplaceGz(n) : n \in names}
                     \cup {WithoutSuffix(n) : n \in names} :
            StartsWith(n, "access") \/ StartsWith(n, "error")}

Paths == {LocalPath(n) : n \in LocalNames}

InitCollector ==
    /\ pc = "connect" /\ exc = ""
    /\ ParseIdle
    /\ access_log_files = << >> /\ error_log_files = << >> /\ file_no = 0
    /\ all_access_logs_df = << >> /\ all_error_logs_df = << >>
    /\ csv_access = NoCsv /\ csv_error = NoCsv
    /\ exported = {} /\ runs = 0
    /\ remote \in RemoteDirs
    /\ fs = [p \in Paths |-> Absent]
    /\ files_downloaded = Unbound
    /\ sftp_open = FALSE /\ client_open = FALSE
    /\ last_call = NoCall

\* lines 51-56: the SSH connection and the SFTP session
Connect ==
    /\ pc = "connect"
    /\ client_open' = TRUE /\ sftp_open' = TRUE
    /\ pc' = "listdir"
    /\ UNCHANGED <<exc, remote, fs, files_downloaded, last_call, parseVars, pipeVars>>

\* lines 57-67 and, when the remote path is missing, the `finally` block of
\* lines 102-104, which reads files_downloaded before anything bound it
Listdir ==
    /\ pc = "listdir"
    /\ IF remote.exists
       THEN /\ files_downloaded' = 0
            /\ pc' = "loop" /\ exc' = ""
       ELSE /\ files_downloaded' = files_downloaded
            /\ pc' = "raised" /\ exc' = "UnboundLocalError"
    /\ UNCHANGED <<remote, fs, sftp_open, client_open, last_call, parseVars, pipeVars>>

\* sftp.get(remote_file, local_file) that delivers the first k blocks: the
\* local file is created and written as the blocks arrive, and stays as it is
\* when the transfer raises
SftpGet(fsys, entry, k) == [fsys EXCEPT ![LocalPath(entry.name)] = SubSeq(entry.data, 1, k)]

Wanted(name) == StartsWith(name, "access") \/ StartsWith(name, "error")

\* lines 69-101: one file of the listing
DownloadFile ==
    /\ pc = "loop"
    /\ file_no < Len(remote.files)
    /\ file_no' = file_no + 1
    /\ LET entry == remote.files[file_no + 1]
           local == LocalPath(entry.name)
       IN  IF Wanted(entry.name)
           THEN \E k \in 0..Len(entry.data) :
                  LET fetched == SftpGet(fs, entry, k)
                  IN  IF k < Len(entry.data)
                      THEN \* the transfer raised: lines 97-101 log it
                           /\ fs' = fetched
                           /\ UNCHANGED <<files_downloaded, last_call>>
                      ELSE /\ files_downloaded' = files_downloaded + 1
                           /\ IF EndsWithGz(entry.name)
                              THEN /\ fs' = DecompressFiles(fetched, local)
                                   /\ last_call' = [path |-> local,
                                                    archive |-> fetched[local]]
                              ELSE /\ fs' = fetched
                                   /\ UNCHANGED last_call
           ELSE /\ files_downloaded' = files_downloaded + 1
                /\ UNCHANGED <<fs, last_call>>
    /\ UNCHANGED <<pc, exc, remote, sftp_open, client_open, parseVars,
                   access_log_files, error_log_files, all_access_logs_df,
                   all_error_logs_df, csv_access, csv_error, exported, runs>>

\* lines 102-111: the loop is over; both connections are closed
CloseAndReturn ==
    /\ pc = "loop"
    /\ file_no = Len(remote.files)
    /\ sftp_open' = FALSE /\ client_open' = FALSE
    /\ pc' = "returned"
    /\ UNCHANGED <<exc, remote, fs, files_downloaded, last_call, parseVars, pipeVars>>

\* decompress_files called on the local path of a listed archive, after the
\* collection (a call of its own, e.g. a second one on the same path)
CallDecompressFiles ==
    /\ pc = "returned"
    /\ \E i \in 1..Len(remote.files) :
          LET name == remote.files[i].name
              path == LocalPath(name)
          IN  /\ Wanted(name) /\ EndsWithGz(name)
              /\ last_call' = [path |-> path, archive |-> fs[path]]
              /\ fs' = DecompressFiles(fs, path)
    /\ UNCHANGED <<pc, exc, remote, files_downloaded, sftp_open, client_open,
                   parseVars, pipeVars>>

NextCollector ==
    Connect \/ Listdir \/ DownloadFile \/ CloseAndReturn \/ CallDecompressFiles

SpecCollector == InitCollector /\ [][NextCollector]_vars

(***************************************************************************)
(* Properties of the collector (SpecCollector).                            *)
(***************************************************************************)
\* a complete gzip stream: header first, trailer last
ValidArchive(data) ==
    data # Absent /\ Len(data) >= 2 /\ data[1] = GzipHeader
        /\ data[Len(data)] = GzipTrailer

\* the plain blocks a complete gzip stream carries
ArchivePayload(data) == [i \in 1..(Len(data) - 2) |-> Inflate(data[i + 1])]

\* C9: after decompress_files on the path of a valid archive, the path without
\* its .gz suffix holds the archive's payload and the archive is gone; a call on
\* a path whose archive is gone changes nothing and does not raise.
C9_DecompressIdempotent ==
    [][last_call' # last_call =>
          LET path == last_call'.path
              archive == last_call'.archive
          IN  /\ ValidArchive(archive) =>
                    /\ fs'[WithoutSuffix(path)] = ArchivePayload(archive)
                    /\ fs'[path] = Absent
              /\ archive = Absent => fs' = fs /\ exc' = ""]_vars

\* the remote entry stored under the local path, complete: its bytes, or the
\* payload of its archive under the archive's name without the suffix
CompleteCopy(path) ==
    \E i \in 1..Len(remote.files) :
        LET entry == remote.files[i]
        IN  /\ Wanted(entry.name)
            /\ \/ path = LocalPath(entry.name) /\ fs[path] = entry.data
               \/ /\ EndsWithGz(entry.name) /\ ValidArchive(entry.data)
                  /\ path = WithoutSuffix(LocalPath(entry.name))
                  /\ fs[path] = ArchivePayload(entry.data)

\* C10: once log_download has returned, every file in the local access and
\* error directories is a complete copy; nothing is left of a transfer or a
\* decompression that failed partway.
C10_NoPartialFile ==
    pc = "returned" => \A path \in Paths : fs[path] # Absent => CompleteCopy(path)

\* log_download has left: by returning, or by an exception
Exited == pc \in {"returned", "raised"}

\* C11: every exit of log_download after the SFTP session was opened, the one
\* after a missing remote path included, has closed the SFTP session and the
\* SSH client and raises nothing.
C11_ExitClosesBoth ==
    Exited => exc = "" /\ ~sftp_open /\ ~client_open

====
